---------------------------- MODULE Spec2Model ----------------------------
(***************************************************************************)
(* A model of EdgeXAPIClient (src/edgex/edgex_api_client.py): the REST     *)
(* transport send_api_request with its retry loop, the bounded event       *)
(* memory (store_data over deque(maxlen=max_memory)) and the WebSocket     *)
(* session (connect_*_websocket, handle_message, process_data).            *)
(*                                                                         *)
(* Several specifications share the module.  SpecRest runs one call of     *)
(* send_api_request, SpecStore applies store_data to a fresh client,       *)
(* SpecWs runs one WebSocket session, SpecClassify and SpecSign each make  *)
(* one call of a helper method, SpecRegistry registers callbacks and       *)
(* dispatches frames to them and SpecHeaders builds the headers of one     *)
(* signature.  The variables of the other parts stay at their initial      *)
(* values in each of them.                                                 *)
(***************************************************************************)
EXTENDS Integers, Sequences, FiniteSets, TLC

VARIABLES
    \* ---- send_api_request: its arguments and locals ----
    rpc,            \* position in send_api_request
    http_method,    \* argument http_method
    retries,        \* argument retries
    base_wait,      \* argument base_wait (seconds)
    max_wait,       \* argument max_wait (seconds)
    auth_required,  \* argument auth_required
    attempt,        \* local attempt
    results,        \* what each pass through the try block met, in order
    waits,          \* the arguments of time.sleep, in order
    outcome,        \* how the call ended: "none", "returned", "raised", "fell_through"
    sig_count,      \* calls of generate_signature_headers made by this call
    clock,          \* what time.time() reads, in whole seconds
    headers_log,    \* the value of the local headers in each pass, in order
    attempt_at,     \* history: the clock reading at each pass, in order
    \* ---- the client object ----
    save_memory,    \* self.save_memory
    max_memory,     \* self.max_memory
    memory,         \* self.memory: category -> key -> deque, index 1 is the left end
    event_callbacks,    \* self.event_callbacks: a function from the registered keys to handlers
    channel_callbacks,  \* self.channel_callbacks: likewise
    pushed,         \* history: per category and key, the present values passed to store_data
    \* ---- one WebSocket session ----
    variant,        \* which connect_* coroutine runs: "public", "web", "app"
    channels,       \* argument channels of connect_public_websocket
    wpc,            \* position in the connect_* coroutine
    sock,           \* the connection: "none", "open", "closed"
    releases,       \* how often the connection was released
    handshakes,     \* calls of websockets.connect
    ws_sig_count,   \* calls of generate_signature_headers made by the session
    cur,            \* the message returned by the last websocket.recv()
    frames_read,    \* messages returned by websocket.recv() so far
    calls,          \* callback invocations made for the message in cur, in order
    sent,           \* frames handed to websocket.send, in order
    in_flight,      \* calls of websocket.send that have not returned
    elapsed,        \* seconds the session has waited in the current websocket.recv()
    ended_by,       \* history: what ended the session, "none" while it runs
    \* ---- single calls of the helper methods ----
    classify_arg,   \* argument channel_name of a call of classify_channel
    classify_ret,   \* what that call returned
    sign_args,      \* the clock reading and arguments of a call of generate_signature_headers
    sign_ret,       \* the message that call signed
    reg_log,        \* history: the registrations made, in order
    signer_ret,     \* the clock reading of a call of generate_signature_headers and what the
                    \* signing library returned to it: r, s and the public key's y
    headers_ret     \* the headers that call returned

restVars == <<rpc, http_method, retries, base_wait, max_wait, auth_required,
              attempt, results, waits, outcome, sig_count, clock,
              headers_log, attempt_at>>
clientVars == <<save_memory, max_memory, memory, event_callbacks,
                channel_callbacks, pushed>>
wsVars == <<variant, channels, wpc, sock, releases, handshakes, ws_sig_count,
            cur, frames_read, calls, sent, in_flight, elapsed, ended_by>>
fnVars == <<classify_arg, classify_ret, sign_args, sign_ret, reg_log,
            signer_ret, headers_ret>>
vars == <<restVars, clientVars, wsVars, fnVars>>

-----------------------------------------------------------------------------
(* Bounds of the model. *)

MaxRetries == 3
MaxBaseWait == 2
MaxWaitCap == 5
MaxCap == 2
MaxPushes == 4
MaxFrames == 2
MaxIntervals == 2
MaxRegistrations == 1
MaxTokens == 2
MaxParams == 2
MaxRegLog == 3

None == "None"

Min(a, b) == IF a <= b THEN a ELSE b

\* The value of cur before the first message is read.
NoMsg == [raw |-> "none", type |-> None, time |-> None, channel |-> <<>>,
          content |-> "absent", event |-> None, data |-> None]

-----------------------------------------------------------------------------
(* __init__: the memory of a fresh client. *)

PublicKeys == {"kline", "depth", "trades"}

PrivateKeys == {"ACCOUNT_UPDATE", "DEPOSIT_UPDATE", "WITHDRAW_UPDATE",
                "TRANSFER_IN_UPDATE", "TRANSFER_OUT_UPDATE", "ORDER_UPDATE",
                "FORCE_WITHDRAW_UPDATE", "FORCE_TRADE_UPDATE",
                "FUNDING_SETTLEMENT", "ORDER_FILL_FEE_INCOME",
                "START_LIQUIDATING", "FINISH_LIQUIDATING"}

Categories == {"public", "private"}

KeysOf(category) == IF category = "public" THEN PublicKeys ELSE PrivateKeys

EmptyMemory == [c \in Categories |-> [k \in KeysOf(c) |-> <<>>]]

ping_interval == 30

InitRestIdle ==
    /\ rpc = "idle" /\ http_method = "GET" /\ retries = 0 /\ base_wait = 0
    /\ max_wait = 0 /\ auth_required = FALSE /\ attempt = 0
    /\ results = <<>> /\ waits = <<>> /\ outcome = "none" /\ sig_count = 0
    /\ clock = 0 /\ headers_log = <<>> /\ attempt_at = <<>>

InitWsIdle ==
    /\ variant = "public" /\ channels = <<>> /\ wpc = "idle" /\ sock = "none"
    /\ releases = 0 /\ handshakes = 0 /\ ws_sig_count = 0 /\ cur = NoMsg
    /\ frames_read = 0 /\ calls = <<>> /\ sent = <<>> /\ in_flight = 0
    /\ elapsed = 0 /\ ended_by = "none"

InitFnIdle ==
    /\ classify_arg = <<>> /\ classify_ret = None
    /\ sign_args = <<>> /\ sign_ret = <<>> /\ reg_log = <<>>
    /\ signer_ret = <<>> /\ headers_ret = <<>>

InitClientDefault ==
    /\ save_memory = FALSE /\ max_memory = 1 /\ memory = EmptyMemory
    /\ event_callbacks = <<>> /\ channel_callbacks = <<>>
    /\ pushed = EmptyMemory

-----------------------------------------------------------------------------
(* send_api_request.  base_wait, max_wait and the waits slept are whole     *)
(* seconds.  The clock starts at 0 and moves on by what time.sleep is       *)
(* given; the time a request takes is not counted.                          *)

Methods == {"GET", "post", "PUT"}

upper(m) == CASE m = "get" -> "GET"
              [] m = "post" -> "POST"
              [] m = "put" -> "PUT"
              [] OTHER -> m

\* What one pass through the try block can meet.  A supported method issues
\* the HTTP call, which ends in a transport-level exception or in a response;
\* response.json() returns for a JSON body and raises for any other body.
\* Any other method raises ValueError.
Statuses == {200, 500}

TryResults(m) ==
    IF upper(m) \in {"GET", "POST"}
    THEN {[kind |-> "transport_error", status |-> 0, json |-> FALSE]}
         \cup {[kind |-> "response", status |-> s, json |-> j] :
                    s \in Statuses, j \in BOOLEAN}
    ELSE {[kind |-> "usage_error", status |-> 0, json |-> FALSE]}

\* The pass returns (line 185) exactly when a response with a JSON body came.
Returns(r) == r.kind = "response" /\ r.json

wait_time_exponential(b, a, m) == Min(b * (2 ^ (a - 1)), m)

\* line 191
wait_time(b, a, m) == Min(b * a, m)

\* line 189
exhausted(a, r) == a > r

Digits == <<"0", "1", "2", "3", "4", "5", "6", "7", "8", "9">>

\* str(n) for an integer n >= 0
RECURSIVE str_int(_)
str_int(n) ==
    IF n < 10 THEN <<Digits[n + 1]>>
    ELSE str_int(n \div 10) \o <<Digits[(n % 10) + 1]>>

\* line 112, for a clock that reads now milliseconds
timestamp_of(now) == str_int(now)

\* line 174 with auth_required false: headers = {}
NoHeaders == [names |-> {}, timestamp |-> <<>>]

\* lines 112 and 141-145: the headers made while time.time() reads now
\* seconds.  The signature value comes from a library outside the repository;
\* of the two headers the record keeps the names and the timestamp.
generate_signature_headers(now) ==
    [names |-> {"X-edgeX-Api-Signature", "X-edgeX-Api-Timestamp"},
     timestamp |-> timestamp_of(now * 1000)]

headers_of_first_attempt(auth, now, earlier) ==
    IF earlier # <<>> THEN earlier[1]
    ELSE IF auth THEN generate_signature_headers(now) ELSE NoHeaders

\* line 174, inside the loop: the value of headers in a pass made at clock
\* reading now, after the passes that made the headers in earlier
headers_of_attempt(auth, now, earlier) ==
    IF auth THEN generate_signature_headers(now) ELSE NoHeaders

\* line 187: except Exception
catches(r) == TRUE

InitRest ==
    /\ rpc = "loop"
    /\ http_method \in Methods
    /\ retries \in -1..MaxRetries
    /\ base_wait \in 0..MaxBaseWait
    /\ max_wait \in 0..MaxWaitCap
    /\ auth_required \in BOOLEAN
    /\ attempt = 0
    /\ results = <<>> /\ waits = <<>> /\ outcome = "none" /\ sig_count = 0
    /\ clock = 0 /\ headers_log = <<>> /\ attempt_at = <<>>
    /\ InitClientDefault
    /\ InitFnIdle
    /\ InitWsIdle

\* line 171, loop condition false: the function ends without return or raise.
send_api_request_fall_through ==
    /\ rpc = "loop"
    /\ ~(attempt <= retries)
    /\ rpc' = "done"
    /\ outcome' = "fell_through"
    /\ UNCHANGED <<http_method, retries, base_wait, max_wait, auth_required,
                   attempt, results, waits, sig_count, clock, headers_log,
                   attempt_at>>
    /\ UNCHANGED <<clientVars, wsVars, fnVars>>

\* lines 171-185: one pass through the try block.
send_api_request_try ==
    /\ rpc = "loop"
    /\ attempt <= retries
    /\ sig_count' = IF auth_required THEN sig_count + 1 ELSE sig_count
    /\ headers_log' = Append(headers_log,
                             headers_of_attempt(auth_required, clock, headers_log))
    /\ attempt_at' = Append(attempt_at, clock)
    /\ \E r \in TryResults(http_method) :
          /\ results' = Append(results, r)
          /\ IF Returns(r)
             THEN rpc' = "done" /\ outcome' = "returned"
             ELSE IF catches(r)
                  THEN rpc' = "except" /\ outcome' = outcome
                  ELSE rpc' = "done" /\ outcome' = "raised"
    /\ UNCHANGED <<http_method, retries, base_wait, max_wait, auth_required,
                   attempt, waits, clock>>
    /\ UNCHANGED <<clientVars, wsVars, fnVars>>

\* lines 187-193: the handler.
send_api_request_except ==
    /\ rpc = "except"
    /\ attempt' = attempt + 1
    /\ IF exhausted(attempt', retries)
       THEN /\ rpc' = "done" /\ outcome' = "raised"
            /\ waits' = waits /\ clock' = clock
       ELSE /\ rpc' = "loop" /\ outcome' = outcome
            /\ waits' = Append(waits, wait_time(base_wait, attempt', max_wait))
            /\ clock' = clock + wait_time(base_wait, attempt', max_wait)
    /\ UNCHANGED <<http_method, retries, base_wait, max_wait, auth_required,
                   results, sig_count, headers_log, attempt_at>>
    /\ UNCHANGED <<clientVars, wsVars, fnVars>>

NextRest ==
    \/ send_api_request_fall_through
    \/ send_api_request_try
    \/ send_api_request_except

SpecRest == InitRest /\ [][NextRest]_vars

-----------------------------------------------------------------------------
(* Properties of send_api_request *)

AllTransportErrors == \A i \in 1..Len(results) : results[i].kind = "transport_error"

Unsupported == upper(http_method) \notin {"GET", "POST"}

\* C1: with maxRetries >= 0 and every attempt failing with a transport-level
\* error, exactly maxRetries+1 attempts are made, the wait slept before retry n
\* (n = 1..maxRetries) is min(base_wait * n, max_wait), no wait follows the
\* last failed attempt, and then the error is raised to the caller.
C1_BackoffSequence ==
    (retries >= 0 /\ AllTransportErrors) =>
        /\ Len(results) <= retries + 1
        /\ Len(waits) <= retries
        /\ \A n \in 1..Len(waits) : waits[n] = Min(base_wait * n, max_wait)
        /\ rpc = "loop" => Len(waits) = Len(results)
        /\ rpc = "except" => Len(waits) = Len(results) - 1
        /\ rpc = "done" => /\ Len(results) = retries + 1
                           /\ Len(waits) = retries
                           /\ outcome = "raised"

\* C1 witness: maxRetries=3, base=1, max=5, four failed attempts, waits
\* [1, 2, 3], then the error raised.
C1_Witness ==
    /\ rpc = "done" /\ outcome = "raised"
    /\ retries = 3 /\ base_wait = 1 /\ max_wait = 5
    /\ AllTransportErrors /\ Len(results) = 4
    /\ waits = <<1, 2, 3>>

\* C2 (as claimed): a call with a method other than GET or POST fails at
\* once: one attempt, no wait slept, the error raised, whatever maxRetries.
C2_UnsupportedFailsAtOnce ==
    (Unsupported /\ retries >= 0) =>
        /\ Len(results) <= 1
        /\ waits = <<>>
        /\ rpc = "done" => (outcome = "raised" /\ Len(results) = 1)

\* C3 (as claimed): an attempt that receives an HTTP response, of any status
\* and any body, ends the call with a normal result: no wait and no attempt
\* follows it, and the call does not end in an error.
C3_ResponseEndsCall ==
    \A i \in 1..Len(results) :
        results[i].kind = "response" =>
            /\ i = Len(results)
            /\ Len(waits) < i
            /\ rpc = "done" => outcome = "returned"

-----------------------------------------------------------------------------
(* store_data over deque(maxlen=max_memory) *)

Values == {"d1", "d2"}

append_right(dq, x, maxlen) ==
    IF maxlen = 0 THEN dq
    ELSE IF Len(dq) >= maxlen THEN Append(SubSeq(dq, 2, Len(dq)), x)
    ELSE Append(dq, x)

\* line 970: deque.appendleft on a deque built with maxlen (lines 51-67); a
\* full deque discards at the right end.
appendleft(dq, x, maxlen) ==
    IF maxlen = 0 THEN dq
    ELSE IF Len(dq) >= maxlen THEN <<x>> \o SubSeq(dq, 1, maxlen - 1)
    ELSE <<x>> \o dq

\* line 970: self.memory[category][event] raises KeyError for a missing key.
store_data_raises(mem, category, event, data) ==
    data # None /\ event \notin DOMAIN mem[category]

store_data_any_value(mem, maxlen, category, event, data) ==
    IF event \in DOMAIN mem[category]
    THEN [mem EXCEPT ![category][event] = appendleft(@, data, maxlen)]
    ELSE mem

\* lines 967-971
store_data(mem, maxlen, category, event, data) ==
    IF data # None /\ event \in DOMAIN mem[category]
    THEN [mem EXCEPT ![category][event] = appendleft(@, data, maxlen)]
    ELSE mem

\* The keys the store specification pushes to.
StoreKeys == {<<"public", "kline">>, <<"private", "ORDER_UPDATE">>}

InitStore ==
    /\ save_memory \in BOOLEAN
    /\ max_memory \in 0..MaxCap
    /\ memory = EmptyMemory
    /\ pushed = EmptyMemory
    /\ event_callbacks = <<>> /\ channel_callbacks = <<>>
    /\ InitRestIdle
    /\ InitWsIdle
    /\ InitFnIdle

\* A call self.store_data(category, event, data).
StoreData ==
    \E ck \in StoreKeys, d \in Values \cup {None} :
        /\ Len(pushed[ck[1]][ck[2]]) < MaxPushes
        /\ ~store_data_raises(memory, ck[1], ck[2], d)
        /\ memory' = store_data(memory, max_memory, ck[1], ck[2], d)
        /\ pushed' = IF d # None
                     THEN [pushed EXCEPT ![ck[1]][ck[2]] = Append(@, d)]
                     ELSE pushed
        /\ UNCHANGED <<save_memory, max_memory, event_callbacks, channel_callbacks>>
        /\ UNCHANGED <<restVars, wsVars, fnVars>>

NextStore == StoreData

SpecStore == InitStore /\ [][NextStore]_vars

\* The n most recent entries of history h, most recent first.
MostRecentFirst(h, n) == [i \in 1..n |-> h[Len(h) - i + 1]]

\* C4: for a store of capacity N and every (category, key), the stored
\* sequence has length at most N and is the min(k, N) most recently pushed
\* present values, most recent first (k = number of present values pushed).
C4_Eviction ==
    \A c \in Categories : \A k \in KeysOf(c) :
        /\ Len(memory[c][k]) <= max_memory
        /\ memory[c][k] =
              MostRecentFirst(pushed[c][k], Min(Len(pushed[c][k]), max_memory))

\* C4 witness: N+1 values pushed into a store of capacity N = 2: size 2,
\* the oldest dropped, the last pushed value first.
C4_Witness ==
    /\ max_memory = 2
    /\ pushed["private"]["ORDER_UPDATE"] = <<"d1", "d2", "d1">>
    /\ memory["private"]["ORDER_UPDATE"] = <<"d1", "d2">>

-----------------------------------------------------------------------------
(* Inbound messages: what websocket.recv() returns and json.loads makes of  *)
(* it.  A message is a record; raw tells how far parsing gets:              *)
(*   "undecodable"  a binary frame whose bytes are not valid UTF-8          *)
(*   "malformed"    a text frame that is not JSON                           *)
(*   "nonobject"    JSON, but not an object (a list, a number, null)        *)
(*   "object"       a JSON object, with the fields the code reads           *)
(* A field that is missing (or null, for data) is None.  content tells      *)
(* whether the "content" member is missing, an object or something else.    *)
(* Channel names are sequences of characters; a missing channel reads as    *)
(* the empty name, the default of data.get("channel", "").                  *)

Msg(r, t, tm, ch, co, ev, d) ==
    [raw |-> r, type |-> t, time |-> tm, channel |-> ch, content |-> co,
     event |-> ev, data |-> d]

Raw(r) == Msg(r, None, None, <<>>, "absent", None, None)

Data(d) == [data |-> d]

CH_KLINE == <<"t","i","c","k","e","r",".","k","l","i","n","e",".","B","T","C">>
CH_OTHER == <<"f","o","o",".","b","a","r">>

Messages ==
    { Raw("undecodable"),
      Raw("malformed"),
      Msg("object", "ping", "123", <<>>, "absent", None, None),
      Msg("object", "ping", None, <<>>, "absent", None, None),
      Msg("object", "connected", None, <<>>, "absent", None, None),
      Msg("object", "subscribed", None, <<>>, "absent", None, None),
      Msg("object", None, None, <<>>, "absent", None, None),
      Msg("object", "trade-event", None, <<>>, "dict", "ORDER_UPDATE", "d1"),
      Msg("object", "trade-event", None, <<>>, "dict", "ORDER_UPDATE", "d2"),
      Msg("object", "trade-event", None, <<>>, "dict", "ORDER_UPDATE", None),
      Msg("object", "trade-event", None, <<>>, "dict", "TRADE_UPDATE", "d1"),
      Msg("object", "trade-event", None, <<>>, "dict", "Snapshot", "d1"),
      Msg("object", "quote-event", None, CH_KLINE, "dict", None, "q1"),
      Msg("object", "payload", None, CH_KLINE, "dict", None, "d1"),
      Msg("object", "payload", None, CH_OTHER, "dict", None, "d1"),
      Msg("object", "error", None, <<>>, "absent", None, None) }

\* lines 873-874: json.loads(message) and msg_json.get.  json.loads raises
\* JSONDecodeError for text that is not JSON and UnicodeDecodeError for bytes
\* that are not valid UTF-8; .get on a value that is no dict raises
\* AttributeError.
json_loads(m) ==
    CASE m.raw = "malformed" -> "JSONDecodeError"
      [] m.raw = "undecodable" -> "UnicodeDecodeError"
      [] m.raw = "nonobject" -> "AttributeError"
      [] OTHER -> "ok"

\* dict.get(key, default)
get(v, default) == IF v = None THEN default ELSE v

UpperChars == <<"A","B","C","D","E","F","G","H","I","J","K","L","M",
                "N","O","P","Q","R","S","T","U","V","W","X","Y","Z">>
LowerChars == <<"a","b","c","d","e","f","g","h","i","j","k","l","m",
                "n","o","p","q","r","s","t","u","v","w","x","y","z">>

lower_char(c) ==
    IF \E i \in 1..26 : UpperChars[i] = c
    THEN LowerChars[CHOOSE i \in 1..26 : UpperChars[i] = c]
    ELSE c

search_case_sensitive(pat, name) ==
    \E i \in 1..(Len(name) - Len(pat) + 1) :
        \A j \in 1..Len(pat) : name[i + j - 1] = pat[j]

\* re.search(pat, name, re.IGNORECASE) for a pattern of lower-case letters
search(pat, name) ==
    \E i \in 1..(Len(name) - Len(pat) + 1) :
        \A j \in 1..Len(pat) : lower_char(name[i + j - 1]) = pat[j]

\* lines 956-965; the pattern trades? matches exactly where trade does
classify_channel(channel_name) ==
    IF search(<<"k","l","i","n","e">>, channel_name) THEN "kline"
    ELSE IF search(<<"d","e","p","t","h">>, channel_name) THEN "depth"
    ELSE IF search(<<"t","r","a","d","e">>, channel_name) THEN "trades"
    ELSE "unknown"

pong_message_default(timestamp) == [type |-> "pong", time |-> ""]

\* line 896
pong_message(timestamp) == [type |-> "pong", time |-> timestamp]

\* line 890, in send_ping.  No coroutine of the class starts send_ping (no
\* call, create_task or gather names it), so no action sends this frame.
ping_message(now) == [type |-> "ping", time |-> now]

send_not_awaited == FALSE

\* lines 811, 878, 897: every websocket.send is awaited by the coroutine that
\* calls it
send_awaited == TRUE

is_snapshot_upper(event_type) == event_type = "SNAPSHOT"

\* line 913
is_snapshot(event_type) == event_type = "Snapshot"

-----------------------------------------------------------------------------
(* process_data, lines 900-954.  cb_raises tells whether the callback the   *)
(* frame reaches, if any, raises.  The result: the callback invocations     *)
(* made, the memory afterwards and whether an exception leaves the method.  *)

Result(c, mem, r) == [calls |-> c, memory |-> mem, raised |-> r]

Call(reg, key, handler, arg) ==
    [reg |-> reg, key |-> key, handler |-> handler, arg |-> arg]

\* lines 909-925
process_trade_event(d, cb_raises) ==
    IF d.content = "nondict" THEN Result(<<>>, memory, TRUE)
    ELSE
    LET event_type == IF d.content = "absent" THEN "" ELSE get(d.event, "")
        event_data == IF d.content = "absent" THEN None ELSE d.data
        registered == event_type \in DOMAIN event_callbacks
        made == IF registered
                THEN <<Call("event", event_type, event_callbacks[event_type],
                            Data(event_data))>>
                ELSE <<>>
    IN  IF is_snapshot(event_type) THEN Result(<<>>, memory, FALSE)
        ELSE IF registered /\ cb_raises THEN Result(made, memory, TRUE)
        ELSE IF ~save_memory THEN Result(made, memory, FALSE)
        ELSE Result(made,
                    store_data(memory, max_memory, "private", event_type, event_data),
                    store_data_raises(memory, "private", event_type, event_data))

process_quote_event_data_only(d, cb_raises) ==
    IF "quote" \in DOMAIN channel_callbacks
    THEN Result(<<Call("channel", "quote", channel_callbacks["quote"], Data(d.data))>>,
                memory, cb_raises)
    ELSE Result(<<>>, memory, FALSE)

\* lines 928-933
process_quote_event(d, cb_raises) ==
    IF "quote" \in DOMAIN channel_callbacks
    THEN Result(<<Call("channel", "quote", channel_callbacks["quote"], d)>>,
                memory, cb_raises)
    ELSE Result(<<>>, memory, FALSE)

process_payload_always_stores(d, cb_raises) ==
    IF d.content = "nondict" THEN Result(<<>>, memory, TRUE)
    ELSE
    LET category == classify_channel(d.channel)
        event_data == IF d.content = "absent" THEN None ELSE d.data
        registered == category \in DOMAIN channel_callbacks
        made == IF registered
                THEN <<Call("channel", category, channel_callbacks[category],
                            Data(event_data))>>
                ELSE <<>>
    IN  IF registered /\ cb_raises THEN Result(made, memory, TRUE)
        ELSE IF category \in DOMAIN memory["public"]
        THEN Result(made,
                    store_data(memory, max_memory, "public", category, event_data),
                    store_data_raises(memory, "public", category, event_data))
        ELSE Result(made, memory, FALSE)

\* lines 936-951
process_payload(d, cb_raises) ==
    IF d.content = "nondict" THEN Result(<<>>, memory, TRUE)
    ELSE
    LET channel_name == d.channel
        event_data == IF d.content = "absent" THEN None ELSE d.data
        category == classify_channel(channel_name)
        registered == category \in DOMAIN channel_callbacks
        made == IF registered
                THEN <<Call("channel", category, channel_callbacks[category],
                            Data(event_data))>>
                ELSE <<>>
    IN  IF registered /\ cb_raises THEN Result(made, memory, TRUE)
        ELSE IF save_memory /\ category \in DOMAIN memory["public"]
        THEN Result(made,
                    store_data(memory, max_memory, "public", category, event_data),
                    store_data_raises(memory, "public", category, event_data))
        ELSE Result(made, memory, FALSE)

process_data_other_as_payload(d, cb_raises) ==
    LET message_type == get(d.type, "")
    IN  CASE message_type = "trade-event" -> process_trade_event(d, cb_raises)
          [] message_type = "quote-event" -> process_quote_event(d, cb_raises)
          [] OTHER -> process_payload(d, cb_raises)

\* lines 900-954
process_data(d, cb_raises) ==
    LET message_type == get(d.type, "")
    IN  CASE message_type \in {"connected", "subscribed"} -> Result(<<>>, memory, FALSE)
          [] message_type = "trade-event" -> process_trade_event(d, cb_raises)
          [] message_type = "quote-event" -> process_quote_event(d, cb_raises)
          [] message_type = "payload" -> process_payload(d, cb_raises)
          [] OTHER -> Result(<<>>, memory, FALSE)

-----------------------------------------------------------------------------
(* One WebSocket session: connect_public_websocket (lines 773-790),         *)
(* connect_private_websocket_web (814-838) or connect_private_websocket_app *)
(* (840-866), with the callbacks registered before it starts.               *)

Variants == {"public", "web", "app"}

Subscribe(ch) == [type |-> "subscribe", channel |-> ch]

\* The values of the argument channels: None or two channels.
ChannelArgs == {<<>>, <<Subscribe("ticker.all"), Subscribe("depth.BTC")>>}

\* The number of keys registered in the two registries.
Registered(ev, ch) == Cardinality(DOMAIN ev) + Cardinality(DOMAIN ch)

Handlers == {"h1"}
EventKeysUsed == {"ORDER_UPDATE", "Snapshot"}
ChannelKeysUsed == {"kline", "quote", "unknown"}

put_if_absent(d, key, value) ==
    [k \in DOMAIN d \cup {key} |-> IF k \in DOMAIN d THEN d[k] ELSE value]

\* dict assignment d[key] = value
Put(d, key, value) ==
    [k \in DOMAIN d \cup {key} |-> IF k = key THEN value ELSE d[k]]

InitWs ==
    /\ variant \in Variants
    /\ channels \in (IF variant = "public" THEN ChannelArgs ELSE {<<>>})
    /\ wpc = "start" /\ sock = "none"
    /\ releases = 0 /\ handshakes = 0 /\ ws_sig_count = 0 /\ cur = NoMsg
    /\ frames_read = 0 /\ calls = <<>> /\ sent = <<>> /\ in_flight = 0
    /\ elapsed = 0 /\ ended_by = "none"
    /\ save_memory \in BOOLEAN
    /\ max_memory \in 1..MaxCap
    /\ memory = EmptyMemory /\ pushed = EmptyMemory
    /\ event_callbacks = <<>> /\ channel_callbacks = <<>>
    /\ InitRestIdle
    /\ InitFnIdle

\* lines 75-93
register_event_callback ==
    /\ wpc = "start"
    /\ \E event \in EventKeysUsed, callback \in Handlers :
          /\ event_callbacks' = Put(event_callbacks, event, callback)
          /\ Registered(event_callbacks', channel_callbacks) <= MaxRegistrations
    /\ UNCHANGED <<save_memory, max_memory, memory, channel_callbacks, pushed>>
    /\ UNCHANGED <<restVars, wsVars, fnVars>>

\* lines 95-105
register_channel_callback ==
    /\ wpc = "start"
    /\ \E channel \in ChannelKeysUsed, callback \in Handlers :
          /\ channel_callbacks' = Put(channel_callbacks, channel, callback)
          /\ Registered(event_callbacks, channel_callbacks') <= MaxRegistrations
    /\ UNCHANGED <<save_memory, max_memory, memory, event_callbacks, pushed>>
    /\ UNCHANGED <<restVars, wsVars, fnVars>>

\* The exit of `async with websockets.connect(...)` on an exception and the
\* except clause after it: the connection is closed and the coroutine returns.
Fail_leaves_open ==
    /\ sock' = sock
    /\ releases' = releases
    /\ wpc' = "returned"

Fail_reconnects ==
    /\ sock' = "none"
    /\ releases' = releases + 1
    /\ wpc' = "start"

Fail ==
    /\ sock' = "closed"
    /\ releases' = releases + 1
    /\ wpc' = "returned"

\* lines 821 and 847: the private variants sign before they connect.
connect_sign ==
    /\ wpc = "start"
    /\ variant # "public"
    /\ wpc' = "signed"
    /\ ws_sig_count' = ws_sig_count + 1
    /\ UNCHANGED <<variant, channels, ended_by, sock, releases, handshakes, cur,
                   frames_read, calls, sent, in_flight, elapsed>>
    /\ UNCHANGED <<restVars, clientVars, fnVars>>

\* lines 779, 830, 850: websockets.connect.  The connection is not made
\* ("refused": there is no socket), or it is made and the opening handshake
\* is rejected ("rejected", the InvalidStatusCode of line 857: the connection
\* that was made is closed before the exception reaches the coroutine), or
\* the handshake succeeds.  Either failure is caught at lines 789, 836,
\* 857-866 and the coroutine returns.
connect ==
    /\ \/ wpc = "start" /\ variant = "public"
       \/ wpc = "signed"
    /\ handshakes' = handshakes + 1
    /\ \E result \in {"ok", "refused", "rejected"} :
          CASE result = "ok" ->
                 /\ sock' = "open"
                 /\ releases' = releases
                 /\ wpc' = IF variant = "public" /\ channels # <<>>
                           THEN "subscribe" ELSE "recv"
                 /\ ended_by' = ended_by
            [] result = "refused" ->
                 /\ sock' = sock
                 /\ releases' = releases
                 /\ wpc' = "returned"
                 /\ ended_by' = "refused"
            [] result = "rejected" -> Fail /\ ended_by' = "rejected"
    /\ UNCHANGED <<variant, channels, ws_sig_count, cur,
                   frames_read, calls, sent, in_flight, elapsed>>
    /\ UNCHANGED <<restVars, clientVars, fnVars>>

next_channel_reversed(chs, already) == chs[Len(chs) - Len(already)]

\* line 810: the for loop takes the elements of channels in list order;
\* already holds the frames sent so far
next_channel(chs, already) == chs[Len(already) + 1]

\* lines 810-811: the next subscribe frame is handed to websocket.send.
subscribe_channels ==
    /\ wpc = "subscribe"
    /\ sent' = Append(sent, next_channel(channels, sent))
    /\ in_flight' = in_flight + 1
    /\ wpc' = IF send_awaited THEN "subscribe_wait" ELSE
              IF Len(sent') < Len(channels) THEN "subscribe" ELSE "recv"
    /\ UNCHANGED <<variant, channels, ended_by, sock, releases, handshakes, ws_sig_count,
                   cur, frames_read, calls, elapsed>>
    /\ UNCHANGED <<restVars, clientVars, fnVars>>

\* A call of websocket.send ends: it returns, or raises into the coroutine
\* awaiting it.
send_return ==
    /\ in_flight > 0
    /\ in_flight' = in_flight - 1
    /\ \E ok \in BOOLEAN :
          IF wpc \notin {"subscribe_wait", "pong_wait"}
          THEN UNCHANGED <<wpc, sock, releases, ended_by>>
          ELSE IF ok
          THEN /\ wpc' = IF wpc = "subscribe_wait" /\ Len(sent) < Len(channels)
                         THEN "subscribe" ELSE "recv"
               /\ UNCHANGED <<sock, releases, ended_by>>
          ELSE Fail /\ ended_by' = "send_error"
    /\ UNCHANGED <<variant, channels, handshakes, ws_sig_count, cur,
                   frames_read, calls, sent, elapsed>>
    /\ UNCHANGED <<restVars, clientVars, fnVars>>

\* lines 786, 833, 853: websocket.recv() returns the next message.
recv ==
    /\ wpc = "recv"
    /\ frames_read < MaxFrames
    /\ \E m \in Messages : cur' = m
    /\ frames_read' = frames_read + 1
    /\ calls' = <<>>
    /\ elapsed' = 0
    /\ wpc' = "handle"
    /\ UNCHANGED <<variant, channels, ended_by, sock, releases, handshakes, ws_sig_count,
                   sent, in_flight>>
    /\ UNCHANGED <<restVars, clientVars, fnVars>>

\* lines 786, 833, 853: websocket.recv() raises: ConnectionClosedOK when the
\* server has closed the connection in the orderly way, another exception
\* when the connection is lost.  All of them are caught by except Exception.
recv_error ==
    /\ wpc = "recv"
    /\ Fail
    /\ \E why \in {"closed_ok", "recv_error"} : ended_by' = why
    /\ elapsed' = 0
    /\ UNCHANGED <<variant, channels, handshakes, ws_sig_count, cur,
                   frames_read, calls, sent, in_flight>>
    /\ UNCHANGED <<restVars, clientVars, fnVars>>

\* Time passes while the coroutine waits in websocket.recv().
wait_in_recv ==
    /\ wpc = "recv"
    /\ elapsed < MaxIntervals * ping_interval
    /\ elapsed' = elapsed + ping_interval
    /\ UNCHANGED <<variant, channels, ended_by, wpc, sock, releases, handshakes,
                   ws_sig_count, cur, frames_read, calls, sent, in_flight>>
    /\ UNCHANGED <<restVars, clientVars, fnVars>>

\* lines 872-873, 883-884: json.loads raises JSONDecodeError, which
\* handle_message catches.
handle_message_decode_error ==
    /\ wpc = "handle"
    /\ json_loads(cur) = "JSONDecodeError"
    /\ wpc' = "recv"
    /\ UNCHANGED <<variant, channels, ended_by, sock, releases, handshakes, ws_sig_count,
                   cur, frames_read, calls, sent, in_flight, elapsed>>
    /\ UNCHANGED <<restVars, clientVars, fnVars>>

\* lines 872-874: json.loads or msg_json.get raises an exception other than
\* JSONDecodeError; it leaves handle_message and the receive loop.
handle_message_error ==
    /\ wpc = "handle"
    /\ json_loads(cur) \notin {"ok", "JSONDecodeError"}
    /\ Fail
    /\ ended_by' = "processing_error"
    /\ UNCHANGED <<variant, channels, handshakes, ws_sig_count, cur,
                   frames_read, calls, sent, in_flight, elapsed>>
    /\ UNCHANGED <<restVars, clientVars, fnVars>>

\* lines 876-878, 894-897: a ping is answered by send_pong.
handle_message_ping ==
    /\ wpc = "handle"
    /\ json_loads(cur) = "ok"
    /\ get(cur.type, "") = "ping"
    /\ sent' = Append(sent, pong_message(get(cur.time, "")))
    /\ in_flight' = in_flight + 1
    /\ wpc' = IF send_awaited THEN "pong_wait" ELSE "recv"
    /\ UNCHANGED <<variant, channels, ended_by, sock, releases, handshakes, ws_sig_count,
                   cur, frames_read, calls, elapsed>>
    /\ UNCHANGED <<restVars, clientVars, fnVars>>

\* lines 879-881: every other message goes to process_data; an exception
\* raised there leaves handle_message and the receive loop.
handle_message_process ==
    /\ wpc = "handle"
    /\ json_loads(cur) = "ok"
    /\ get(cur.type, "") # "ping"
    /\ \E cb_raises \in BOOLEAN :
          LET res == process_data(cur, cb_raises)
          IN  /\ calls' = res.calls
              /\ memory' = res.memory
              /\ IF res.raised
                 THEN Fail /\ ended_by' = "processing_error"
                 ELSE wpc' = "recv" /\ UNCHANGED <<sock, releases, ended_by>>
    /\ UNCHANGED <<variant, channels, handshakes, ws_sig_count, cur,
                   frames_read, sent, in_flight, elapsed>>
    /\ UNCHANGED <<save_memory, max_memory, event_callbacks, channel_callbacks,
                   pushed>>
    /\ UNCHANGED <<restVars, fnVars>>

NextWs ==
    \/ register_event_callback
    \/ register_channel_callback
    \/ connect_sign
    \/ connect
    \/ subscribe_channels
    \/ send_return
    \/ recv
    \/ recv_error
    \/ wait_in_recv
    \/ handle_message_decode_error
    \/ handle_message_error
    \/ handle_message_ping
    \/ handle_message_process

SpecWs == InitWs /\ [][NextWs]_vars

-----------------------------------------------------------------------------
(* Properties of the session *)

Handling == wpc = "handle" /\ cur.raw = "object"

HandlingTradeEvent == Handling /\ cur.type = "trade-event" /\ cur.content = "dict"

\* C5: an inbound ping with time field t makes handle_message send exactly
\* one outbound frame, the pong with the same t, and invokes no callback and
\* changes no store, neither when the ping is handled nor while its pong is
\* sent.
C5_PingPong ==
    [][ /\ (Handling /\ cur.type = "ping" /\ cur.time # None) =>
            /\ sent' = Append(sent, [type |-> "pong", time |-> cur.time])
            /\ calls' = <<>>
            /\ memory' = memory
        /\ wpc = "pong_wait" =>
            /\ sent' = sent
            /\ calls' = <<>>
            /\ memory' = memory
            /\ wpc' \in {"recv", "returned"}
      ]_vars

\* C5 witness: the ping with time "123" was answered by the one pong with
\* time "123", with persistence on, and nothing was stored or called.
C5_Witness ==
    /\ wpc = "recv" /\ frames_read = 1 /\ save_memory
    /\ cur.type = "ping" /\ cur.time = "123"
    /\ sent = <<[type |-> "pong", time |-> "123"]>>
    /\ calls = <<>> /\ memory = EmptyMemory

\* C6 (as claimed): while the session stays connected a ping is sent after
\* every ping interval, also when no inbound frame arrives: a session that
\* has waited two whole intervals for a message has sent a ping.
C6_KeepalivePing ==
    (wpc = "recv" /\ sock = "open" /\ elapsed >= 2 * ping_interval) =>
        \E i \in 1..Len(sent) : sent[i].type = "ping"

C8_MalformedNonFatal ==
    [][ (wpc = "handle" /\ cur.raw \in {"malformed", "undecodable"}) =>
            /\ wpc' = "recv" /\ sock' = "open"
            /\ sent' = sent /\ calls' = calls /\ memory' = memory
      ]_vars

\* C9 (as claimed): for a trade-event whose event is not "Snapshot", the
\* callback registered for the event kind, if any, is invoked exactly once
\* with content.data alone, and with persistence enabled a present
\* content.data becomes the first element of the private sequence of that
\* event kind.
C9_TradeEventDispatch ==
    [][ (HandlingTradeEvent /\ cur.event # "Snapshot") =>
            /\ calls' = IF cur.event \in DOMAIN event_callbacks
                        THEN <<Call("event", cur.event,
                                    event_callbacks[cur.event], Data(cur.data))>>
                        ELSE <<>>
            /\ (save_memory /\ cur.data # None) =>
                  /\ cur.event \in DOMAIN memory'["private"]
                  /\ Len(memory'["private"][cur.event]) > 0
                  /\ memory'["private"][cur.event][1] = cur.data
      ]_vars

\* C10: a trade-event with event "Snapshot" invokes no callback and changes
\* no store, whatever is registered and whether persistence is on or off.
C10_SnapshotDropped ==
    [][ (HandlingTradeEvent /\ cur.event = "Snapshot") =>
            /\ calls' = <<>>
            /\ memory' = memory
            /\ sent' = sent
      ]_vars

\* C10 witness: a Snapshot frame was handled with a callback registered
\* under "Snapshot" and persistence on; nothing was called or stored.
C10_Witness ==
    /\ wpc = "recv" /\ sock = "open" /\ save_memory
    /\ cur.type = "trade-event" /\ cur.event = "Snapshot"
    /\ "Snapshot" \in DOMAIN event_callbacks
    /\ calls = <<>> /\ memory = EmptyMemory

\* The data of the quote-event frames; no other message carries it.
QuoteData == "q1"

\* C11: a quote-event frame invokes the callback registered for "quote", if
\* any, exactly once and with the whole frame, it changes no store, and no
\* quote-event payload is ever in a sequence of the public or private store,
\* with persistence on or off.
C11_QuoteExclusion ==
    /\ [](\A c \in Categories : \A k \in DOMAIN memory[c] :
            \A i \in 1..Len(memory[c][k]) : memory[c][k][i] # QuoteData)
    /\ [][ (Handling /\ cur.type = "quote-event") =>
              /\ calls' = IF "quote" \in DOMAIN channel_callbacks
                          THEN <<Call("channel", "quote",
                                      channel_callbacks["quote"], cur)>>
                          ELSE <<>>
              /\ memory' = memory
         ]_vars

\* C11 witness: with persistence on, a quote-event was handed whole to the
\* registered quote callback and the session went on; nothing was stored.
C11_Witness ==
    /\ wpc = "recv" /\ sock = "open" /\ save_memory
    /\ cur.type = "quote-event" /\ cur.data = QuoteData
    /\ Len(calls) = 1 /\ calls[1].key = "quote" /\ calls[1].arg = cur
    /\ memory = EmptyMemory

HandlingPayload == Handling /\ cur.type = "payload" /\ cur.content = "dict"

\* C13: a payload frame is dispatched to the callback registered for its
\* classified category, if any, with content.data; the store changes only
\* if persistence is enabled and the category is kline, depth or trades,
\* and then only by content.data becoming the head of the public sequence of
\* that category; the public store has exactly those three categories.
C13_PayloadDispatch ==
    /\ [](DOMAIN memory["public"] = {"kline", "depth", "trades"})
    /\ [][ HandlingPayload =>
             LET cat == classify_channel(cur.channel)
             IN  /\ calls' = IF cat \in DOMAIN channel_callbacks
                             THEN <<Call("channel", cat, channel_callbacks[cat],
                                         Data(cur.data))>>
                             ELSE <<>>
                 /\ memory' # memory =>
                       /\ save_memory
                       /\ cat \in {"kline", "depth", "trades"}
                       /\ memory'["public"][cat][1] = cur.data
                       /\ memory'["private"] = memory["private"]
                       /\ \A k \in DOMAIN memory["public"] \ {cat} :
                             memory'["public"][k] = memory["public"][k]
         ]_vars

\* C13 witness: with persistence on, a payload classified unknown reached
\* the callback registered under "unknown" and nothing was stored.
C13_Witness ==
    /\ wpc = "recv" /\ sock = "open" /\ save_memory
    /\ cur.type = "payload" /\ classify_channel(cur.channel) = "unknown"
    /\ Len(calls) = 1 /\ calls[1].key = "unknown"
    /\ calls[1].arg = Data(cur.data)
    /\ memory = EmptyMemory

-----------------------------------------------------------------------------
(* classify_channel on its own: one call with a channel name built from    *)
(* at most MaxTokens pieces, or one of four concrete names.                *)

Tokens ==
    { <<"k","l","i","n","e">>, <<"K","L","i","n","e">>,
      <<"d","e","p","t","h">>, <<"D","E","P","T","H">>,
      <<"t","r","a","d","e">>, <<"T","r","a","d","e","s">>,
      <<"r","a","d","e">>, <<".">>, <<"f","o","o">> }

RECURSIVE NamesOf(_)
NamesOf(n) ==
    IF n = 0 THEN {<<>>}
    ELSE LET shorter == NamesOf(n - 1)
         IN  shorter \cup {a \o t : a \in shorter, t \in Tokens}

CH_DEPTH == <<"B","T","C",".","d","e","p","t","h",".","2","0","0">>
CH_TRADES == <<"s","p","o","t",".","t","r","a","d","e","s">>

ChannelNames == NamesOf(MaxTokens) \cup {CH_KLINE, CH_DEPTH, CH_TRADES, CH_OTHER}

InitClassify ==
    /\ classify_arg \in ChannelNames
    /\ classify_ret = None
    /\ sign_args = <<>> /\ sign_ret = <<>> /\ reg_log = <<>>
    /\ signer_ret = <<>> /\ headers_ret = <<>>
    /\ InitRestIdle /\ InitClientDefault /\ InitWsIdle

\* A call self.classify_channel(classify_arg).
ClassifyChannel ==
    /\ classify_ret = None
    /\ classify_ret' = classify_channel(classify_arg)
    /\ UNCHANGED <<classify_arg, sign_args, sign_ret, reg_log, signer_ret,
                   headers_ret>>
    /\ UNCHANGED <<restVars, clientVars, wsVars>>

NextClassify == ClassifyChannel

SpecClassify == InitClassify /\ [][NextClassify]_vars

\* str.lower() of a name
Lowered(name) == [i \in 1..Len(name) |-> lower_char(name[i])]

\* pat is a contiguous part of name
Occurs(pat, name) ==
    \E i \in 0..(Len(name) - Len(pat)) : SubSeq(name, i + 1, i + Len(pat)) = pat

\* C12: classify_channel ignores case and decides by priority: a name
\* containing "kline" is kline; otherwise one containing "depth" is depth;
\* otherwise one containing "trade" (so also "trades") is trades; otherwise
\* unknown.  "ticker.kline.BTC", "BTC.depth.200", "spot.trades" and
\* "foo.bar" give kline, depth, trades and unknown.
C12_Classification ==
    classify_ret # None =>
        LET n == Lowered(classify_arg)
            k == Occurs(<<"k","l","i","n","e">>, n)
            d == Occurs(<<"d","e","p","t","h">>, n)
            t == Occurs(<<"t","r","a","d","e">>, n)
        IN  /\ classify_ret = (IF k THEN "kline"
                               ELSE IF d THEN "depth"
                               ELSE IF t THEN "trades"
                               ELSE "unknown")
            /\ classify_arg = CH_KLINE => classify_ret = "kline"
            /\ classify_arg = CH_DEPTH => classify_ret = "depth"
            /\ classify_arg = CH_TRADES => classify_ret = "trades"
            /\ classify_arg = CH_OTHER => classify_ret = "unknown"

\* C12 witness: a name holding "depth" and then "KLine" in mixed case was
\* classified kline.
C12_Witness ==
    /\ classify_arg = <<"d","e","p","t","h","K","L","i","n","e">>
    /\ classify_ret = "kline"

-----------------------------------------------------------------------------
(* generate_signature_headers up to the message it signs (lines 112-116).  *)
(* Text is a sequence of characters.  A dict is the sequence of its         *)
(* <<key, value>> items in insertion order, with distinct keys.  The hash   *)
(* and the signature of the message are made by libraries outside the       *)
(* repository and are not modelled.                                         *)

\* Letters in code point order: every upper-case letter is below every
\* lower-case one.
Letters == UpperChars \o LowerChars

ord(c) == CHOOSE i \in 1..Len(Letters) : Letters[i] = c

\* a < b on str: by the first differing character, a proper prefix first
str_lt(a, b) ==
    \/ Len(a) < Len(b) /\ SubSeq(b, 1, Len(a)) = a
    \/ \E i \in 1..Min(Len(a), Len(b)) :
          /\ SubSeq(a, 1, i - 1) = SubSeq(b, 1, i - 1)
          /\ ord(a[i]) < ord(b[i])

\* The values of a query parameter: a str, an int or None.
StrVal(t) == [kind |-> "str", n |-> 0, text |-> t]
IntVal(i) == [kind |-> "int", n |-> i, text |-> <<>>]
NoneVal == [kind |-> "none", n |-> 0, text |-> <<>>]

\* f"{v}"
format(v) ==
    CASE v.kind = "str" -> v.text
      [] v.kind = "int" -> str_int(v.n)
      [] v.kind = "none" -> <<"N", "o", "n", "e">>

keys_in_insertion_order(ks) == ks

\* sorted(ks) for a sequence of distinct str: the least first
RECURSIVE sorted(_)
sorted(ks) ==
    IF ks = <<>> THEN <<>>
    ELSE LET least == CHOOSE i \in 1..Len(ks) :
                         \A j \in 1..Len(ks) : j # i => str_lt(ks[i], ks[j])
         IN  <<ks[least]>> \o
             sorted(SubSeq(ks, 1, least - 1) \o SubSeq(ks, least + 1, Len(ks)))

\* sep.join(parts)
RECURSIVE join(_, _)
join(sep, parts) ==
    IF parts = <<>> THEN <<>>
    ELSE IF Len(parts) = 1 THEN parts[1]
    ELSE parts[1] \o sep \o join(sep, Tail(parts))

\* query_params[k]
lookup(query_params, k) ==
    query_params[CHOOSE i \in 1..Len(query_params) : query_params[i][1] = k][2]

\* line 114
sorted_query(query_params) ==
    LET ks == sorted([i \in 1..Len(query_params) |-> query_params[i][1]])
    IN  join(<<"&">>,
             [i \in 1..Len(ks) |-> ks[i] \o <<"=">> \o format(lookup(query_params, ks[i]))])

\* lines 179 and 181: requests.get / requests.post with params=query_params.
\* requests leaves a key whose value is None out of the query string and
\* sends the others as supplied.
IsSent(item) == item[2].kind # "none"
transmitted_query(query_params) == SelectSeq(query_params, IsSent)

\* line 116
signed_message(now, method, request_path, query_params) ==
    timestamp_of(now) \o method \o request_path \o sorted_query(query_params)

ClockReadings == {0, 99, 1700}
SignMethods == { <<"G","E","T">>, <<"p","o","s","t">> }
RequestPaths == { <<"/","a">>, <<"/","a","/","b">> }
ParamKeys == { <<"a">>, <<"b">>, <<"a","b">>, <<"B">> }
ParamValues == { StrVal(<<"1">>), IntVal(20), NoneVal }

RECURSIVE DictsOf(_)
DictsOf(n) ==
    IF n = 0 THEN {<<>>}
    ELSE LET smaller == DictsOf(n - 1)
         IN  smaller \cup
             { Append(d, <<k, v>>) :
                 d \in {e \in smaller : Len(e) = n - 1},
                 k \in ParamKeys, v \in ParamValues }

HasDistinctKeys(d) ==
    \A i, j \in 1..Len(d) : i # j => d[i][1] # d[j][1]

QueryParams == {d \in DictsOf(MaxParams) : HasDistinctKeys(d)}

InitSign ==
    /\ sign_args \in [now : ClockReadings, http_method : SignMethods,
                      request_path : RequestPaths, query_params : QueryParams]
    /\ sign_ret = <<>>
    /\ classify_arg = <<>> /\ classify_ret = None /\ reg_log = <<>>
    /\ signer_ret = <<>> /\ headers_ret = <<>>
    /\ InitRestIdle /\ InitClientDefault /\ InitWsIdle

\* A call self.generate_signature_headers(http_method, request_path,
\* query_params) while the clock reads sign_args.now.
GenerateSignatureHeaders ==
    /\ sign_ret = <<>>
    /\ sign_ret' = signed_message(sign_args.now, sign_args.http_method,
                                  sign_args.request_path, sign_args.query_params)
    /\ UNCHANGED <<classify_arg, classify_ret, sign_args, reg_log, signer_ret,
                   headers_ret>>
    /\ UNCHANGED <<restVars, clientVars, wsVars>>

NextSign == GenerateSignatureHeaders

SpecSign == InitSign /\ [][NextSign]_vars

\* The items of d in the order p of their positions.
Reordered(d, p) == [i \in 1..Len(d) |-> d[p[i]]]

\* "k=v" of an item
Pair(item) == item[1] \o <<"=">> \o format(item[2])

\* C14: the signed message is timestamp, method, path and sortedQuery put
\* together with nothing in between, sortedQuery being the "k=v" pairs in
\* ascending key order joined by "&"; the insertion order of the query
\* parameters does not change the message.
C14_SignedMessage ==
    sign_ret # <<>> =>
        LET d == sign_args.query_params
            n == Len(d)
            head == str_int(sign_args.now) \o sign_args.http_method
                        \o sign_args.request_path
        IN  /\ \E p \in Permutations(1..n) :
                  /\ \A i \in 1..(n - 1) : str_lt(d[p[i]][1], d[p[i + 1]][1])
                  /\ sign_ret = head \o
                        (IF n = 0 THEN <<>>
                         ELSE IF n = 1 THEN Pair(d[p[1]])
                         ELSE IF n = 2
                         THEN Pair(d[p[1]]) \o <<"&">> \o Pair(d[p[2]])
                         ELSE join(<<"&">>, [i \in 1..n |-> Pair(d[p[i]])]))
            /\ \A p \in Permutations(1..n) :
                  signed_message(sign_args.now, sign_args.http_method,
                                 sign_args.request_path, Reordered(d, p)) = sign_ret

\* C14 witness: parameters inserted as b, then a with the value None, signed
\* at clock reading 1700 for GET /a: the message lists a before b.
C14_Witness ==
    /\ sign_args.query_params = << <<(<<"b">>), StrVal(<<"1">>)>>,
                                   <<(<<"a">>), NoneVal>> >>
    /\ sign_ret = <<"1","7","0","0", "G","E","T", "/","a",
                    "a","=","N","o","n","e", "&", "b","=","1">>

-----------------------------------------------------------------------------
(* Signing in send_api_request *)

\* C16: with auth_required the headers are generated in every pass: there
\* are as many generations as attempts and the headers of each attempt carry
\* the timestamp read at that attempt; without auth_required no signature is
\* generated and the headers of every attempt are empty.
C16_FreshSignature ==
    /\ Len(headers_log) = Len(results)
    /\ auth_required =>
          /\ sig_count = Len(results)
          /\ \A i \in 1..Len(headers_log) :
                /\ headers_log[i].names =
                      {"X-edgeX-Api-Signature", "X-edgeX-Api-Timestamp"}
                /\ headers_log[i].timestamp = str_int(attempt_at[i] * 1000)
    /\ ~auth_required =>
          /\ sig_count = 0
          /\ \A i \in 1..Len(headers_log) :
                headers_log[i].names = {} /\ headers_log[i].timestamp = <<>>

\* C16 witness: three signed attempts, the retries after waits of 1 and 2
\* seconds, with the timestamps 0, 1000 and 3000.
C16_Witness ==
    /\ auth_required /\ sig_count = 3 /\ Len(results) = 3
    /\ waits = <<1, 2>>
    /\ headers_log[1].timestamp = <<"0">>
    /\ headers_log[2].timestamp = <<"1", "0", "0", "0">>
    /\ headers_log[3].timestamp = <<"3", "0", "0", "0">>

-----------------------------------------------------------------------------
(* The callback registry: registrations in any order, with frames handed   *)
(* to process_data in between.  Persistence is off, so a dispatch leaves    *)
(* the store alone.                                                         *)

RegHandlers == {"h1", "h2"}
RegEventKeys == {"ORDER_UPDATE"}
RegChannelKeys == {"kline", "quote"}

Registration(reg, key, handler) == [reg |-> reg, key |-> key, handler |-> handler]

\* The frames that process_data hands to a callback when one is registered.
DispatchFrames ==
    { m \in Messages :
        /\ m.raw = "object" /\ m.content = "dict"
        /\ m.type \in {"trade-event", "quote-event", "payload"}
        /\ m.type = "trade-event" => m.event # None /\ m.data # None }

InitRegistry ==
    /\ reg_log = <<>>
    /\ classify_arg = <<>> /\ classify_ret = None
    /\ sign_args = <<>> /\ sign_ret = <<>>
    /\ signer_ret = <<>> /\ headers_ret = <<>>
    /\ InitRestIdle /\ InitClientDefault /\ InitWsIdle

\* lines 75-93, a call register_event_callback(event, callback)
RegisterEvent ==
    /\ Len(reg_log) < MaxRegLog
    /\ \E event \in RegEventKeys, callback \in RegHandlers :
          /\ event_callbacks' = Put(event_callbacks, event, callback)
          /\ reg_log' = Append(reg_log, Registration("event", event, callback))
    /\ UNCHANGED <<save_memory, max_memory, memory, channel_callbacks, pushed>>
    /\ UNCHANGED <<classify_arg, classify_ret, sign_args, sign_ret, signer_ret,
                   headers_ret>>
    /\ UNCHANGED <<restVars, wsVars>>

\* lines 95-105, a call register_channel_callback(channel, callback)
RegisterChannel ==
    /\ Len(reg_log) < MaxRegLog
    /\ \E channel \in RegChannelKeys, callback \in RegHandlers :
          /\ channel_callbacks' = Put(channel_callbacks, channel, callback)
          /\ reg_log' = Append(reg_log, Registration("channel", channel, callback))
    /\ UNCHANGED <<save_memory, max_memory, memory, event_callbacks, pushed>>
    /\ UNCHANGED <<classify_arg, classify_ret, sign_args, sign_ret, signer_ret,
                   headers_ret>>
    /\ UNCHANGED <<restVars, wsVars>>

\* lines 900-954, a call process_data(m) whose callback returns
Dispatch ==
    /\ \E m \in DispatchFrames :
          LET res == process_data(m, FALSE)
          IN  /\ ~res.raised
              /\ cur' = m
              /\ calls' = res.calls
              /\ memory' = res.memory
    /\ UNCHANGED <<save_memory, max_memory, event_callbacks, channel_callbacks,
                   pushed>>
    /\ UNCHANGED <<variant, channels, ended_by, wpc, sock, releases, handshakes,
                   ws_sig_count, frames_read, sent, in_flight, elapsed>>
    /\ UNCHANGED <<restVars, fnVars>>

NextRegistry ==
    \/ RegisterEvent
    \/ RegisterChannel
    \/ Dispatch

SpecRegistry == InitRegistry /\ [][NextRegistry]_vars

\* The positions of the registrations of key in registry reg.
RegistrationsOf(reg, key) ==
    {i \in 1..Len(reg_log) : reg_log[i].reg = reg /\ reg_log[i].key = key}

IsRegistered(reg, key) == RegistrationsOf(reg, key) # {}

\* The handler of the latest registration of key in registry reg.
LatestHandler(reg, key) ==
    reg_log[CHOOSE i \in RegistrationsOf(reg, key) :
                \A j \in RegistrationsOf(reg, key) : j <= i].handler

RegistryOf(reg) == IF reg = "event" THEN event_callbacks ELSE channel_callbacks

\* The registry and key a frame is dispatched under.
FrameReg(m) == IF m.type = "trade-event" THEN "event" ELSE "channel"
FrameKey(m) ==
    CASE m.type = "trade-event" -> m.event
      [] m.type = "quote-event" -> "quote"
      [] OTHER -> classify_channel(m.channel)

\* The calls made for the frame in cur are those the registrations so far
\* call for: one call of the latest handler of the frame's key, or none.
DispatchedToLatest ==
    cur # NoMsg =>
        IF IsRegistered(FrameReg(cur), FrameKey(cur))
        THEN /\ Len(calls) = 1
             /\ calls[1].reg = FrameReg(cur)
             /\ calls[1].key = FrameKey(cur)
             /\ calls[1].handler = LatestHandler(FrameReg(cur), FrameKey(cur))
        ELSE calls = <<>>

\* C17: each registry maps a key to exactly the handler of the latest
\* registration of that key and has no other keys; a dispatch calls only
\* that handler, once; a registration leaves the entries of all other keys
\* as they were.
C17_LatestRegistrationWins ==
    /\ [](\A reg \in {"event", "channel"} :
            /\ DOMAIN RegistryOf(reg) =
                  {k \in RegEventKeys \cup RegChannelKeys : IsRegistered(reg, k)}
            /\ \A k \in DOMAIN RegistryOf(reg) :
                  RegistryOf(reg)[k] = LatestHandler(reg, k))
    /\ [][reg_log' = reg_log => DispatchedToLatest']_vars
    /\ [][reg_log' # reg_log =>
            LET e == reg_log'[Len(reg_log')]
            IN  /\ \A k \in DOMAIN event_callbacks :
                      (e.reg # "event" \/ e.key # k) =>
                          /\ k \in DOMAIN event_callbacks'
                          /\ event_callbacks'[k] = event_callbacks[k]
                /\ \A k \in DOMAIN channel_callbacks :
                      (e.reg # "channel" \/ e.key # k) =>
                          /\ k \in DOMAIN channel_callbacks'
                          /\ channel_callbacks'[k] = channel_callbacks[k]
         ]_vars

\* C17 witness: ORDER_UPDATE was registered with h1 and then with h2, after
\* kline with h1; an ORDER_UPDATE frame was dispatched to h2 alone and the
\* kline entry is still h1.
C17_Witness ==
    /\ reg_log = << Registration("channel", "kline", "h1"),
                    Registration("event", "ORDER_UPDATE", "h1"),
                    Registration("event", "ORDER_UPDATE", "h2") >>
    /\ cur.type = "trade-event" /\ cur.event = "ORDER_UPDATE"
    /\ Len(calls) = 1 /\ calls[1].handler = "h2"
    /\ channel_callbacks["kline"] = "h1"

-----------------------------------------------------------------------------
(* Properties of the session as a whole *)

\* C18: frames are processed one at a time in arrival order: a frame is read
\* only when the coroutine is back at websocket.recv() with no send
\* outstanding, so after the handling of the frame before it has returned;
\* callbacks and store updates happen only in the handling of the frame last
\* read, and no frame is read in the same step.
C18_OneFrameAtATime ==
    /\ [][frames_read' # frames_read =>
            /\ wpc = "recv" /\ in_flight = 0
            /\ frames_read' = frames_read + 1
            /\ wpc' = "handle"
            /\ memory' = memory
         ]_vars
    /\ [][(calls' # <<>> /\ calls' # calls) \/ memory' # memory =>
            /\ wpc = "handle"
            /\ cur' = cur /\ frames_read' = frames_read
            /\ wpc' \in {"recv", "returned"}
            /\ \A i \in 1..Len(calls') :
                  calls'[i].arg = IF cur.type = "quote-event" THEN cur
                                  ELSE Data(cur.data)
         ]_vars

\* C18 witness: two ORDER_UPDATE frames arrived with d1 and then d2; both
\* were stored, d2 after d1, and the callback ran for the second frame.
C18_Witness ==
    /\ frames_read = 2 /\ wpc = "recv" /\ max_memory = 2
    /\ memory["private"]["ORDER_UPDATE"] = <<"d2", "d1">>
    /\ cur.type = "trade-event" /\ cur.data = "d2"
    /\ Len(calls) = 1 /\ calls[1].arg = Data("d2")

\* C19: the connection is released at most once; while it is open it has
\* not been released and the coroutine has not returned; once the coroutine
\* has returned the connection is not open, and a connection that was made
\* has been released exactly once, whether the failure was in the handshake,
\* in receiving or in processing.
C19_ReleasedOnce ==
    /\ releases <= 1
    /\ sock = "open" => releases = 0 /\ wpc # "returned"
    /\ sock = "closed" => releases = 1 /\ wpc = "returned"
    /\ sock = "none" => releases = 0
    /\ wpc = "returned" => sock # "open"

\* C19 witness: a frame that could not be decoded raised out of the receive
\* loop; the coroutine returned with the connection released once.
C19_Witness ==
    /\ wpc = "returned" /\ frames_read = 1 /\ cur.raw = "undecodable"
    /\ sock = "closed" /\ releases = 1

\* C20: a call of a connect_* coroutine makes at most one handshake attempt
\* and at most one signature (none in the public variant); once it has
\* returned it makes no further step.
C20_NoReconnect ==
    /\ [](handshakes <= 1 /\ ws_sig_count <= 1)
    /\ [](variant = "public" => ws_sig_count = 0)
    /\ [][wpc = "returned" => wpc' = "returned" /\ handshakes' = handshakes
                              /\ ws_sig_count' = ws_sig_count /\ sock' = sock
         ]_vars

\* C20 witness: a private session whose handshake was rejected has returned
\* after one signature and one handshake attempt.
C20_Witness ==
    /\ variant = "app" /\ wpc = "returned" /\ frames_read = 0
    /\ sock = "closed" /\ handshakes = 1 /\ ws_sig_count = 1

-----------------------------------------------------------------------------
(* What the owner of a session gets *)

\* lines 789-790, 836-838, 857-866: every except clause prints and the
\* coroutine then falls off its end, so whoever awaits it gets None and no
\* exception; the class keeps no state of the session and calls no error
\* callback.
owner_gets == IF wpc = "returned" THEN "None" ELSE "pending"

\* What ends a session by a failure; "closed_ok" is the orderly close.
Failures == {"refused", "rejected", "send_error", "recv_error", "processing_error"}

\* C21: after a failure of the session (handshake, connection, receive) the
\* connect operation has ended and its owner holds an outcome that marks the
\* failure: not a pending operation, and not the None that an orderly close
\* gives.
C21_FailureObservable ==
    ended_by \in Failures =>
        /\ wpc = "returned"
        /\ owner_gets \notin {"pending", "None"}

\* The part of C21 the code does keep: a failure ends the connect operation
\* in the same step, and the operation ends in no other way than by an end
\* of the connection.
C21_FailureTerminates ==
    /\ ended_by # "none" <=> wpc = "returned"
    /\ wpc = "returned" => owner_gets = "None"

-----------------------------------------------------------------------------
(* Subscription *)

IsSubscribe(frame) == frame.type = "subscribe"

\* The subscribe frames handed to websocket.send so far, in order.
SubscribesSent == SelectSeq(sent, IsSubscribe)

\* C22: the subscribe frames sent are the requested channels in list order,
\* one frame each and none twice; none is sent before the connection is
\* established; all of them have been sent when the first inbound frame is
\* read; with no channels requested none is ever sent.
C22_SubscribeFrames ==
    /\ Len(SubscribesSent) <= Len(channels)
    /\ SubscribesSent = SubSeq(channels, 1, Len(SubscribesSent))
    /\ sock = "none" => sent = <<>>
    /\ wpc \in {"recv", "handle", "pong_wait"} \/ frames_read > 0 =>
          SubscribesSent = channels
    /\ SubscribesSent # <<>> => variant = "public"

\* C22 witness: a public session with two requested channels has sent the
\* two subscribe frames in list order and then read its first frame.
C22_Witness ==
    /\ variant = "public" /\ Len(channels) = 2
    /\ frames_read = 1 /\ wpc = "handle"
    /\ sent = channels
    /\ sent[1].channel = "ticker.all" /\ sent[2].channel = "depth.BTC"

-----------------------------------------------------------------------------
(* Frames without effect *)

DispatchedTypes == {"ping", "trade-event", "quote-event", "payload"}

\* C23: the handling of a frame whose type is connected, subscribed, any
\* type outside ping, trade-event, quote-event and payload, or missing,
\* invokes no callback, changes no store and no registry, sends nothing, and
\* the session goes on to the next frame.
C23_InertFrames ==
    [][ (Handling /\ get(cur.type, "") \notin DispatchedTypes) =>
          /\ calls' = <<>>
          /\ memory' = memory
          /\ event_callbacks' = event_callbacks
          /\ channel_callbacks' = channel_callbacks
          /\ sent' = sent /\ in_flight' = in_flight
          /\ wpc' = "recv" /\ sock' = sock
      ]_vars

\* C23 witness: with persistence on and a callback registered under
\* "unknown", a frame without a type was handled: no call, nothing stored,
\* nothing sent, the session still open.
C23_Witness ==
    /\ wpc = "recv" /\ sock = "open" /\ frames_read = 1
    /\ cur.raw = "object" /\ cur.type = None
    /\ save_memory /\ "unknown" \in DOMAIN channel_callbacks
    /\ calls = <<>> /\ memory = EmptyMemory /\ sent = <<>>

-----------------------------------------------------------------------------
(* What changes the store *)

\* The frame in cur carries no content.data.
DataAbsent == cur.content # "dict" \/ cur.data = None

\* C24: the store changes only in the handling of a frame, with persistence
\* enabled and a present content.data; with persistence disabled every
\* sequence stays empty whatever frames arrive; with persistence enabled a
\* frame without content.data leaves the store as it was.
C24_StoreChanges ==
    /\ [](~save_memory => memory = EmptyMemory)
    /\ [][ memory' # memory =>
             /\ Handling /\ save_memory /\ ~DataAbsent
             /\ cur' = cur
         ]_vars
    /\ [][ (Handling /\ DataAbsent) => memory' = memory ]_vars

\* C24 witness: with persistence on, d1 was stored from the first frame and
\* a second ORDER_UPDATE frame without data left the store as it was.
C24_Witness ==
    /\ save_memory /\ frames_read = 2 /\ wpc = "recv"
    /\ cur.type = "trade-event" /\ cur.event = "ORDER_UPDATE" /\ cur.data = None
    /\ memory["private"]["ORDER_UPDATE"] = <<"d1">>

-----------------------------------------------------------------------------
(* The headers generate_signature_headers returns (lines 139-146).  The     *)
(* numbers r, s and public_key_y come from the signing library and can be   *)
(* as large as 2^256 - 1, so a number is held as its hexadecimal digits,    *)
(* most significant first and without leading zeros, which is what          *)
(* format(n, "x") gives.                                                    *)

\* line 139: the field width of {r:064x}
HexWidth == 64

HexDigits == <<"0", "1", "2", "3", "4", "5", "6", "7", "8", "9",
               "a", "b", "c", "d", "e", "f">>

\* format(n, "x") for an integer n >= 0
RECURSIVE hex(_)
hex(n) ==
    IF n < 16 THEN <<HexDigits[n + 1]>>
    ELSE hex(n \div 16) \o <<HexDigits[(n % 16) + 1]>>

Repeat(c, k) == [i \in 1..k |-> c]

format_x(digits) == digits

\* f"{v:064x}": zeros on the left up to the field width, nothing cut off
format_064x(digits) ==
    IF Len(digits) >= HexWidth THEN digits
    ELSE Repeat("0", HexWidth - Len(digits)) \o digits

\* line 139
signature_hex(r, s, public_key_y) ==
    format_064x(r) \o format_064x(s) \o format_064x(public_key_y)

\* lines 141-146, for a clock that reads now milliseconds
headers(now, r, s, public_key_y) ==
    [signature |-> signature_hex(r, s, public_key_y),
     timestamp |-> timestamp_of(now)]

\* Numbers in [0, 2^256): 0, 1, 255, 4096, 2^252 and 2^256 - 1.
SignerValues ==
    { hex(0), hex(1), hex(255), hex(4096),
      <<"1">> \o Repeat("0", HexWidth - 1), Repeat("f", HexWidth) }

InitHeaders ==
    /\ signer_ret \in [now : ClockReadings, r : SignerValues, s : SignerValues,
                       public_key_y : SignerValues]
    /\ headers_ret = <<>>
    /\ classify_arg = <<>> /\ classify_ret = None
    /\ sign_args = <<>> /\ sign_ret = <<>> /\ reg_log = <<>>
    /\ InitRestIdle /\ InitClientDefault /\ InitWsIdle

\* A call of generate_signature_headers("GET", "/a", {}) from the signature
\* to the return: the message signed (line 116) and the headers (139-146).
ReturnHeaders ==
    /\ headers_ret = <<>>
    /\ headers_ret' =
          [message |-> signed_message(signer_ret.now, <<"G","E","T">>,
                                      <<"/","a">>, <<>>),
           headers |-> headers(signer_ret.now, signer_ret.r, signer_ret.s,
                               signer_ret.public_key_y)]
    /\ UNCHANGED <<classify_arg, classify_ret, sign_args, sign_ret, reg_log,
                   signer_ret>>
    /\ UNCHANGED <<restVars, clientVars, wsVars>>

NextHeaders == ReturnHeaders

SpecHeaders == InitHeaders /\ [][NextHeaders]_vars

\* field is v written in exactly HexWidth digits: v at the right end, zeros
\* before it.
IsHex64(field, v) ==
    /\ Len(field) = HexWidth
    /\ SubSeq(field, HexWidth - Len(v) + 1, HexWidth) = v
    /\ \A i \in 1..(HexWidth - Len(v)) : field[i] = "0"

\* C25: for r, s and public_key_y in [0, 2^256) the signature header has
\* exactly 192 hexadecimal characters, the 64-digit zero-padded r, then s,
\* then public_key_y; the timestamp header is the decimal string of the
\* clock reading in milliseconds, and the signed message starts with it.
C25_HeaderLayout ==
    headers_ret # <<>> =>
        LET sig == headers_ret.headers.signature
            ts == headers_ret.headers.timestamp
        IN  /\ Len(sig) = 192
            /\ \A i \in 1..Len(sig) : \E j \in 1..16 : sig[i] = HexDigits[j]
            /\ IsHex64(SubSeq(sig, 1, 64), signer_ret.r)
            /\ IsHex64(SubSeq(sig, 65, 128), signer_ret.s)
            /\ IsHex64(SubSeq(sig, 129, 192), signer_ret.public_key_y)
            /\ ts = str_int(signer_ret.now)
            /\ SubSeq(headers_ret.message, 1, Len(ts)) = ts

\* C25 witness: r = 1, s = 2^256 - 1 and public_key_y = 255 at clock
\* reading 1700 gave 63 zeros and 1, 64 times f, 62 zeros and ff.
C25_Witness ==
    /\ headers_ret # <<>>
    /\ signer_ret.now = 1700
    /\ signer_ret.r = <<"1">> /\ signer_ret.s = Repeat("f", 64)
    /\ signer_ret.public_key_y = <<"f", "f">>
    /\ headers_ret.headers.signature =
          Repeat("0", 63) \o <<"1">> \o Repeat("f", 64) \o Repeat("0", 62)
              \o <<"f", "f">>
    /\ headers_ret.headers.timestamp = <<"1", "7", "0", "0">>

-----------------------------------------------------------------------------
(* Robustness of the session and of the REST call *)

\* C26 (as claimed): the handling of a frame that parsed as JSON and is no
\* ping, with no callback involved, leaves the session open and reading:
\* also for a trade-event whose event kind is none of the 12 private keys,
\* with persistence enabled and a present content.data.
C26_JsonFrameNonFatal ==
    [][ (Handling /\ get(cur.type, "") # "ping" /\ calls' = <<>>) =>
            wpc' = "recv" /\ sock' = "open"
      ]_vars

\* C27 (as claimed): the key=value pairs in the signed message are exactly
\* the query parameters transmitted with the request: the message is the one
\* that signing the transmitted parameters gives.
C27_SignedIsTransmitted ==
    sign_ret # <<>> =>
        sign_ret = signed_message(sign_args.now, sign_args.http_method,
                                  sign_args.request_path,
                                  transmitted_query(sign_args.query_params))

\* The store has a sequence for the frame in cur.
HasSlot ==
    IF cur.type = "trade-event" THEN cur.event \in PrivateKeys
    ELSE classify_channel(cur.channel) \in PublicKeys

\* The sequence of the store the frame in cur belongs to, in memory mem.
SlotOf(mem) ==
    IF cur.type = "trade-event" THEN mem["private"][cur.event]
    ELSE mem["public"][classify_channel(cur.channel)]

\* C28 (as claimed): when a callback is invoked for a trade-event or payload
\* frame, whether it returns or raises, the session stays open and reads on,
\* and with persistence enabled the frame's content.data is stored.
C28_CallbackFailureContained ==
    [][ ( /\ Handling /\ cur.content = "dict"
          /\ cur.type \in {"trade-event", "payload"}
          /\ cur.type = "trade-event" => cur.event \in PrivateKeys
          /\ calls' # <<>> ) =>
            /\ wpc' = "recv" /\ sock' = "open"
            /\ (save_memory /\ cur.data # None /\ HasSlot) =>
                  /\ SlotOf(memory') # <<>>
                  /\ SlotOf(memory')[1] = cur.data
      ]_vars

\* C29 (as claimed): a call of send_api_request that has ended has made at
\* least one attempt and has either returned a parsed response or raised an
\* error, for every integer retries.
C29_TwoOutcomes ==
    rpc = "done" =>
        /\ outcome \in {"returned", "raised"}
        /\ Len(results) >= 1

\* The part of C29 the code does keep: the call makes at most retries + 1
\* attempts (none for retries < 0), so it ends.
C29_Bounded ==
    /\ Len(results) <= (IF retries >= 0 THEN retries + 1 ELSE 0)
    /\ Len(waits) <= Len(results)

=============================================================================
